---- MODULE Spec2Model ----
(***************************************************************************)
(* Model of the skill installer (install-skill.js) and of its utilities    *)
(* and uninstaller (utils.js: getEnabledTargets, extractSkillName,         *)
(* detectInstallLocation, uninstallFromTarget, uninstallSkill).            *)
(*                                                                         *)
(* Strings that the code takes apart (package names, path fragments) are   *)
(* sequences of tokens, "/" and "@" being tokens of their own, so that     *)
(* startsWith, split and path.join are computed.  A path is the sequence   *)
(* of its segments below the filesystem root "/", which is <<>>.           *)
(***************************************************************************)
EXTENDS Integers, Sequences, FiniteSets, TLC

VARIABLES
  CWD,               \* utils.js:5, captured once per process
  hasPackageJson,    \* directories that contain package.json
  hasGit,            \* directories that contain .git
  dirs,              \* directories that exist under the install bases
  manifests,         \* base directory -> content of its .skills-manifest.json
  phase,             \* position of the running script
  op,                \* which script the process runs
  config,            \* the parsed .claude-skill.json
  npm_config_global, \* process.env.npm_config_global
  skillMdExists,     \* is SKILL.md next to the installer
  enabledTargets,    \* result of getEnabledTargets
  idx,               \* position of the for-of loop over enabledTargets
  installedPaths,    \* install-skill.js:119
  uninstalledFrom,   \* utils.js:180
  out,               \* per-target console lines of the running script
  exitCode,          \* exit status of the process
  location,          \* value returned by the latest detectInstallLocation
  projectRoot,       \* local projectRoot of that call at its return
  last,              \* what the latest installToTarget/uninstallFromTarget saw and returned
  startedClean,      \* was the filesystem empty when the current run began
  roundTrip          \* does the current run undo the run before it

vars == <<CWD, hasPackageJson, hasGit, dirs, manifests, phase, op, config,
          npm_config_global, skillMdExists, enabledTargets, idx,
          installedPaths, uninstalledFrom, out, exitCode, location,
          projectRoot, last, startedClean, roundTrip>>

world == <<CWD, hasPackageJson, hasGit>>
fsys == <<dirs, manifests>>

----------------------------------------------------------------------------
(* Bounds *)

MaxDepth == 3        \* longest working directory, in segments
MaxTargets == 2      \* most entries of config.targets

----------------------------------------------------------------------------
(* Strings and paths *)

RECURSIVE SplitFrom(_, _, _)
\* String.prototype.split('/'): the pieces between the "/" tokens of s,
\* empty pieces included; cur is the piece being read.
SplitFrom(s, i, cur) ==
  IF i > Len(s) THEN <<cur>>
  ELSE IF s[i] = "/" THEN <<cur>> \o SplitFrom(s, i + 1, <<>>)
  ELSE SplitFrom(s, i + 1, Append(cur, s[i]))

Split(s) == SplitFrom(s, 1, <<>>)

startsWithAt(s) == Len(s) > 0 /\ s[1] = "@"

RECURSIVE Normalize(_, _)
\* path normalisation of an absolute path: empty and "." segments vanish,
\* ".." removes the segment before it (and is dropped at the root).
Normalize(acc, segs) ==
  IF segs = <<>> THEN acc
  ELSE LET h == Head(segs) IN
       IF h = <<>> \/ h = <<".">> THEN Normalize(acc, Tail(segs))
       ELSE IF h = <<"..">>
            THEN Normalize(IF acc = <<>> THEN acc
                           ELSE SubSeq(acc, 1, Len(acc) - 1), Tail(segs))
            ELSE Normalize(Append(acc, h), Tail(segs))

\* path.join(base, rel): base an absolute path, rel a string
join(base, rel) == Normalize(base, Split(rel))

\* path.dirname: the root is its own parent
dirname(p) == IF p = <<>> THEN p ELSE SubSeq(p, 1, Len(p) - 1)

\* path.basename: the last segment, "" for the root
basename(p) == IF p = <<>> THEN <<>> ELSE p[Len(p)]

NODE_MODULES == <<"node_modules">>

IsPrefix(p, q) == Len(p) <= Len(q) /\ SubSeq(q, 1, Len(p)) = p

homedir == << <<"home">> >>

----------------------------------------------------------------------------
(* JavaScript values of the "enabled" field *)

JsValues ==
  { [type |-> "boolean", val |-> "true"],
    [type |-> "boolean", val |-> "false"],
    [type |-> "number", val |-> "1"],
    [type |-> "number", val |-> "0"],
    [type |-> "string", val |-> "false"],
    [type |-> "string", val |-> ""],
    [type |-> "undefined", val |-> ""] }

JsTrue == [type |-> "boolean", val |-> "true"]
JsFalse == [type |-> "boolean", val |-> "false"]

\* ToBoolean
Truthy(v) ==
  CASE v.type = "boolean" -> v.val = "true"
    [] v.type = "number" -> v.val # "0"
    [] v.type = "string" -> v.val # ""
    [] OTHER -> FALSE

----------------------------------------------------------------------------
(* Target Resolver *)

DefaultPaths == [global |-> <<".claude", "/", "skills">>,
                 project |-> <<".claude", "/", "skills">>]

DefaultTargets == << [name |-> "claude-code", paths |-> DefaultPaths] >>

\* property names that are canonical array indices, and their values
IndexValue(k) == CASE k = "1" -> 1 [] k = "2" -> 2 [] OTHER -> -1
IsArrayIndex(k) == IndexValue(k) >= 0

RECURSIVE SelectEntries(_, _)
SelectEntries(s, keep) ==
  IF s = <<>> THEN <<>>
  ELSE IF s[1].name \in keep THEN <<s[1]>> \o SelectEntries(Tail(s), keep)
  ELSE SelectEntries(Tail(s), keep)

RECURSIVE IndexEntries(_)
\* the entries of s under array-index keys, in ascending numeric order
IndexEntries(s) ==
  LET ks == {k \in {s[i].name : i \in 1..Len(s)} : IsArrayIndex(k)} IN
  IF ks = {} THEN <<>>
  ELSE LET m == CHOOSE k \in ks : \A j \in ks : IndexValue(k) <= IndexValue(j)
       IN SelectEntries(s, {m}) \o IndexEntries(SelectEntries(s,
            {s[i].name : i \in 1..Len(s)} \ {m}))

\* Object.entries of a parsed object whose properties were declared in the
\* order of s: array-index keys first, ascending, then the others as declared
ObjectEntries(s) ==
  IndexEntries(s) \o
  SelectEntries(s, {k \in {s[i].name : i \in 1..Len(s)} : ~IsArrayIndex(k)})

RECURSIVE FilterEnabled(_)
FilterEnabled(s) ==
  IF s = <<>> THEN <<>>
  ELSE IF Truthy(s[1].enabled)
       THEN <<[name |-> s[1].name, paths |-> s[1].paths]>> \o FilterEnabled(Tail(s))
       ELSE FilterEnabled(Tail(s))

RECURSIVE AllEntries(_)
AllEntries(s) ==
  IF s = <<>> THEN <<>>
  ELSE <<[name |-> s[1].name, paths |-> s[1].paths]>> \o AllEntries(Tail(s))

\* getEnabledTargets without the filter of line 24
getEnabledTargets_noFilter(c) ==
  IF ~c.hasTargets THEN DefaultTargets
  ELSE AllEntries(ObjectEntries(c.targets))

getEnabledTargets(c) ==
  IF ~c.hasTargets THEN DefaultTargets
  ELSE FilterEnabled(ObjectEntries(c.targets))

extractSkillName(packageName) ==
  IF startsWithAt(packageName)
  THEN LET parts == Split(packageName) IN
       IF Len(parts) >= 2 /\ parts[2] # <<>> THEN parts[2] ELSE packageName
  ELSE packageName

----------------------------------------------------------------------------
(* Location Detector *)

\* the test of lines 61-62 without its includes('/node_modules/') half
isInNodeModules_basenameOnly(p) == basename(p) = NODE_MODULES

\* utils.js:61-62
isInNodeModules(p) ==
  \/ \E i \in 1..(Len(p) - 1) : p[i] = NODE_MODULES
  \/ basename(p) = NODE_MODULES

\* utils.js:74-75
finalIsInNodeModules(p) ==
  \/ \E i \in 1..(Len(p) - 1) : p[i] = NODE_MODULES
  \/ basename(p) = NODE_MODULES

RECURSIVE Walk(_)
\* the while loop of utils.js:55-71
Walk(p) ==
  IF p = dirname(p) THEN p
  ELSE IF (p \in hasPackageJson \/ p \in hasGit) /\ ~isInNodeModules(p) THEN p
  ELSE Walk(dirname(p))

\* the value of the local projectRoot when detectInstallLocation returns
detectedProjectRoot ==
  LET w == Walk(CWD) IN IF finalIsInNodeModules(w) THEN CWD ELSE w

detectInstallLocation(targetPaths, isGlobal) ==
  IF isGlobal
  THEN [type |-> "personal", base |-> join(homedir, targetPaths.global)]
  ELSE [type |-> "project", base |-> join(detectedProjectRoot, targetPaths.project)]

\* install-skill.js:13: installToTarget passes no second argument, and the
\* undefined isGlobal takes the else branch
installLocation(target) == detectInstallLocation(target.paths, FALSE)

\* utils.js:107-108
uninstallLocation(target, env) == detectInstallLocation(target.paths, env = "true")

----------------------------------------------------------------------------
(* Values that stand for "nothing yet" *)

NoConfig == [name |-> <<>>, version |-> "", hasTargets |-> FALSE, targets |-> <<>>]
NoLocation == [type |-> "none", base |-> <<>>]
NoManifest == [kind |-> "absent", skills |-> <<>>]
NoLast == [op |-> "none", target |-> "", base |-> <<>>, type |-> "none",
           ret |-> "none", hadSkillDir |-> FALSE, hadAltDir |-> FALSE,
           hadKey |-> FALSE, fsChanged |-> FALSE, preManifest |-> NoManifest]

----------------------------------------------------------------------------
(* Filesystem *)

\* fs.existsSync of a directory
existsSync(ds, p) == p \in ds

\* fs.mkdirSync(p, {recursive: true}): p and its missing ancestors
mkdirSync(ds, p) == ds \cup {SubSeq(p, 1, k) : k \in 1..Len(p)}

\* fs.rmSync(p, {recursive: true, force: true}): p and everything below it
rmSync(ds, p) == {d \in ds : ~IsPrefix(p, d)}

\* the manifest file of a base directory as the code reads it
readManifest(ms, base) == IF base \in DOMAIN ms THEN ms[base] ELSE NoManifest

\* install-skill.js:177-179, the skill name as updateManifest computes it
manifestSkillName(name) ==
  IF startsWithAt(name)
  THEN LET parts == Split(name) IN
       IF Len(parts) >= 2 /\ parts[2] # <<>> THEN parts[2] ELSE name
  ELSE name

\* does updateManifest throw: a manifest that parses but has no "skills"
\* object makes the assignment of line 181 a TypeError
updateManifestThrows(ms, skillsDir) == readManifest(ms, skillsDir).kind = "noskills"

\* updateManifest writing the record under the stripped skill name
updateManifest_keyedBySkillName(ms, skillsDir, c, targetName) ==
  LET old == readManifest(ms, skillsDir)
      skills == IF old.kind = "ok" THEN old.skills ELSE <<>>
      key == manifestSkillName(c.name)
      rec == [version |-> c.version, package |-> c.name,
              path |-> join(skillsDir, manifestSkillName(c.name)),
              target |-> targetName]
      new == [k \in (DOMAIN skills) \cup {key} |->
                IF k = key THEN rec ELSE skills[k]]
  IN [b \in (DOMAIN ms) \cup {skillsDir} |->
        IF b = skillsDir THEN [kind |-> "ok", skills |-> new] ELSE ms[b]]

\* the manifests after updateManifest(skillsDir, config, targetName) returned
updateManifest(ms, skillsDir, c, targetName) ==
  LET old == readManifest(ms, skillsDir)
      skills == IF old.kind = "ok" THEN old.skills ELSE <<>>
      rec == [version |-> c.version, package |-> c.name,
              path |-> join(skillsDir, manifestSkillName(c.name)),
              target |-> targetName]
      new == [k \in (DOMAIN skills) \cup {c.name} |->
                IF k = c.name THEN rec ELSE skills[k]]
  IN [b \in (DOMAIN ms) \cup {skillsDir} |->
        IF b = skillsDir THEN [kind |-> "ok", skills |-> new] ELSE ms[b]]

\* the manifests after the manifest step of uninstallFromTarget (utils.js:136-148)
removeFromManifest(ms, base, name) ==
  LET old == readManifest(ms, base) IN
  IF old.kind = "ok" /\ name \in DOMAIN old.skills
  THEN [ms EXCEPT ![base] =
          [kind |-> "ok",
           skills |-> [k \in (DOMAIN old.skills) \ {name} |-> old.skills[k]]]]
  ELSE ms

----------------------------------------------------------------------------
(* The packages and the environments of the runs *)

NameA == <<"@", "a", "/", "pkg">>
NameB == <<"@", "b", "/", "pkg">>
NameC == <<"tool">>

CursorPaths == [global |-> <<".cursor", "/", "skills">>,
                project |-> <<".cursor", "/", "rules">>]

PathsOf(targetName) == IF targetName = "cursor" THEN CursorPaths ELSE DefaultPaths

Entry(n, e) == [name |-> n, enabled |-> e, paths |-> PathsOf(n)]

ConfigA == [name |-> NameA, version |-> "1.0.0", hasTargets |-> TRUE,
            targets |-> <<Entry("claude-code", JsTrue), Entry("cursor", JsTrue)>>]
ConfigB == [name |-> NameB, version |-> "2.0.0", hasTargets |-> TRUE,
            targets |-> <<Entry("claude-code", JsTrue), Entry("cursor", JsFalse)>>]
ConfigC == [name |-> NameC, version |-> "1.0.0", hasTargets |-> TRUE,
            targets |-> <<Entry("cursor", JsFalse)>>]

Configs == {ConfigA, ConfigB, ConfigC}

\* .claude-skill.json next to the script: absent, not JSON, or a config
ConfigFiles ==
  {[status |-> "missing", config |-> NoConfig],
   [status |-> "malformed", config |-> NoConfig]}
  \cup {[status |-> "ok", config |-> c] : c \in Configs}

EnvValues == {"true", "false"}

Repo == << <<"repo">> >>
Worlds ==
  { [cwd |-> Repo \o <<NODE_MODULES, <<"pkg">> >>,
     packageJson |-> {Repo \o <<NODE_MODULES, <<"pkg">> >>}, git |-> {Repo}],
    [cwd |-> homedir, packageJson |-> {homedir}, git |-> {}] }

\* every base directory a run can compute
Bases ==
  {detectInstallLocation(PathsOf(n), g).base :
     n \in {"claude-code", "cursor"}, g \in BOOLEAN}

\* the directories that are, or are below, a skill directory of some base
SkillDirs == {d \in dirs : \E b \in Bases : IsPrefix(b, d) /\ d # b}

FsClean == SkillDirs = {} /\ DOMAIN manifests = {}

ProjectBase(n) == join(detectedProjectRoot, PathsOf(n).project)

\* what an earlier release or an editor may have left behind: nothing, a
\* directory under the full package name, a manifest that is not JSON, a
\* manifest that is JSON without a "skills" object
InitialFilesystems ==
  { [dirs |-> {}, manifests |-> <<>>],
    [dirs |-> mkdirSync({}, join(ProjectBase("claude-code"), NameA)),
     manifests |-> <<>>],
    [dirs |-> {},
     manifests |-> (ProjectBase("claude-code") :> [kind |-> "corrupt", skills |-> <<>>])],
    [dirs |-> {},
     manifests |-> (ProjectBase("claude-code") :> [kind |-> "noskills", skills |-> <<>>])] }

----------------------------------------------------------------------------
(* Initial states *)

IdleRun ==
  /\ phase = "idle"
  /\ op = "none"
  /\ npm_config_global = ""
  /\ skillMdExists = TRUE
  /\ enabledTargets = <<>>
  /\ idx = 1
  /\ installedPaths = <<>>
  /\ uninstalledFrom = <<>>
  /\ out = <<>>
  /\ exitCode = 0
  /\ location = NoLocation
  /\ projectRoot = <<>>
  /\ last = NoLast
  /\ startedClean = FALSE
  /\ roundTrip = FALSE

Init ==
  /\ \E w \in Worlds :
       /\ CWD = w.cwd
       /\ hasPackageJson = w.packageJson
       /\ hasGit = w.git
  /\ \E f \in InitialFilesystems :
       /\ dirs = f.dirs
       /\ manifests = f.manifests
  /\ config = NoConfig
  /\ IdleRun

----------------------------------------------------------------------------
(* A process starts: the environment it sees *)

StartProcess(script, cf, g, md) ==
  /\ phase \in {"idle", "exited"}
  /\ op' = script
  /\ npm_config_global' = g
  /\ skillMdExists' = md
  /\ startedClean' = FsClean
  /\ roundTrip' = /\ script = "uninstall" /\ op = "install" /\ startedClean
                  /\ cf.status = "ok" /\ cf.config = config
                  /\ g = npm_config_global
  /\ idx' = 1
  /\ installedPaths' = <<>>
  /\ uninstalledFrom' = <<>>
  /\ out' = <<>>
  /\ last' = NoLast
  /\ location' = NoLocation
  /\ projectRoot' = <<>>
  /\ UNCHANGED <<world, fsys>>

----------------------------------------------------------------------------
(* install-skill.js *)

\* installSkill throws at line 100 or 102; the catch of line 195 exits with 1
InstallFatal ==
  \E cf \in ConfigFiles, g \in EnvValues, md \in BOOLEAN :
    /\ cf.status # "ok"
    /\ StartProcess("install", cf, g, md)
    /\ config' = NoConfig
    /\ enabledTargets' = <<>>
    /\ phase' = "exited"
    /\ exitCode' = 1

\* installSkill returns at line 110
InstallNoTargets ==
  \E cf \in ConfigFiles, g \in EnvValues, md \in BOOLEAN :
    /\ cf.status = "ok"
    /\ getEnabledTargets(cf.config) = <<>>
    /\ StartProcess("install", cf, g, md)
    /\ config' = cf.config
    /\ enabledTargets' = <<>>
    /\ phase' = "exited"
    /\ exitCode' = 0

\* installSkill reaches the loop of line 120
InstallBegin ==
  \E cf \in ConfigFiles, g \in EnvValues, md \in BOOLEAN :
    /\ cf.status = "ok"
    /\ getEnabledTargets(cf.config) # <<>>
    /\ StartProcess("install", cf, g, md)
    /\ config' = cf.config
    /\ enabledTargets' = getEnabledTargets(cf.config)
    /\ phase' = "running"
    /\ exitCode' = 0

\* a catch block that leaves the loop
afterInstallAttempt_break(i, threw, n) == IF threw THEN n + 1 ELSE i + 1

\* install-skill.js:120-127: the catch block logs and the for-of loop goes on
\* to the next of the n targets, whether or not target i threw
afterInstallAttempt(i, threw, n) == i + 1

\* one iteration of the loop of lines 120-127: installToTarget and its catch
InstallToTarget ==
  /\ phase = "running" /\ op = "install" /\ idx <= Len(enabledTargets)
  /\ LET target == enabledTargets[idx]
         loc == installLocation(target)
         skillName == extractSkillName(config.name)
         targetDir == join(loc.base, skillName)
         altTargetDir == join(loc.base, config.name)
         cleanup == existsSync(dirs, altTargetDir) /\ altTargetDir # targetDir
         dirs1 == IF cleanup THEN rmSync(dirs, altTargetDir) ELSE dirs
         dirs2 == IF ~existsSync(dirs1, targetDir) THEN mkdirSync(dirs1, targetDir)
                  ELSE dirs1
         threw == ~skillMdExists \/ updateManifestThrows(manifests, loc.base)
         pre == readManifest(manifests, loc.base)
     IN /\ location' = loc
        /\ projectRoot' = detectedProjectRoot
        /\ dirs' = dirs2
        /\ manifests' = IF threw THEN manifests
                        ELSE updateManifest(manifests, loc.base, config, target.name)
        /\ installedPaths' = IF threw THEN installedPaths
                             ELSE Append(installedPaths,
                                         [target |-> target.name, path |-> targetDir])
        /\ out' = Append(out, [target |-> target.name,
                               line |-> IF threw THEN "failed" ELSE "installed"])
        /\ last' = [op |-> "install", target |-> target.name, base |-> loc.base,
                    type |-> loc.type,
                    ret |-> IF threw THEN "threw" ELSE "returned",
                    hadSkillDir |-> existsSync(dirs, targetDir),
                    hadAltDir |-> cleanup,
                    hadKey |-> pre.kind = "ok" /\ config.name \in DOMAIN pre.skills,
                    fsChanged |-> dirs' # dirs \/ manifests' # manifests,
                    preManifest |-> pre]
        /\ idx' = afterInstallAttempt(idx, threw, Len(enabledTargets))
  /\ UNCHANGED <<world, phase, op, config, npm_config_global, skillMdExists,
                 enabledTargets, uninstalledFrom, exitCode, startedClean, roundTrip>>

\* the summary of lines 129-145; the script ends without process.exit
InstallFinish ==
  /\ phase = "running" /\ op = "install" /\ idx > Len(enabledTargets)
  /\ phase' = "exited"
  /\ exitCode' = 0
  /\ UNCHANGED <<world, fsys, op, config, npm_config_global, skillMdExists,
                 enabledTargets, idx, installedPaths, uninstalledFrom, out,
                 location, projectRoot, last, startedClean, roundTrip>>

----------------------------------------------------------------------------
(* uninstall script (second half of utils.js) *)

\* uninstallSkill returns at line 166 (no config file) or throws at line 169
\* (not JSON) into the catch of line 210, which does not exit
UninstallNoConfig ==
  \E cf \in ConfigFiles, g \in EnvValues :
    /\ cf.status # "ok"
    /\ StartProcess("uninstall", cf, g, skillMdExists)
    /\ config' = NoConfig
    /\ enabledTargets' = <<>>
    /\ phase' = "exited"
    /\ exitCode' = 0

\* uninstallSkill reaches the loop of line 181
UninstallBegin ==
  \E cf \in ConfigFiles, g \in EnvValues :
    /\ cf.status = "ok"
    /\ StartProcess("uninstall", cf, g, skillMdExists)
    /\ config' = cf.config
    /\ enabledTargets' = getEnabledTargets(cf.config)
    /\ phase' = "running"
    /\ exitCode' = 0

\* one iteration of the loop of lines 181-190: uninstallFromTarget
UninstallFromTarget ==
  /\ phase = "running" /\ op = "uninstall" /\ idx <= Len(enabledTargets)
  /\ LET target == enabledTargets[idx]
         isGlobal == npm_config_global = "true"
         loc == uninstallLocation(target, npm_config_global)
         skillName == extractSkillName(config.name)
         skillNameTargetDir == join(loc.base, skillName)
         fullPackageNameTargetDir == join(loc.base, config.name)
         rm1 == existsSync(dirs, skillNameTargetDir)
         dirs1 == IF rm1 THEN rmSync(dirs, skillNameTargetDir) ELSE dirs
         rm2 == existsSync(dirs1, fullPackageNameTargetDir)
                /\ fullPackageNameTargetDir # skillNameTargetDir
         dirs2 == IF rm2 THEN rmSync(dirs1, fullPackageNameTargetDir) ELSE dirs1
         removed == rm1 \/ rm2
         pre == readManifest(manifests, loc.base)
     IN /\ location' = loc
        /\ projectRoot' = IF isGlobal THEN <<>> ELSE detectedProjectRoot
        /\ dirs' = dirs2
        /\ manifests' = removeFromManifest(manifests, loc.base, config.name)
        /\ uninstalledFrom' = IF removed THEN Append(uninstalledFrom, target.name)
                              ELSE uninstalledFrom
        /\ out' = Append(out, [target |-> target.name,
                               line |-> IF removed THEN "uninstalled"
                                        ELSE "not installed"])
        /\ last' = [op |-> "uninstall", target |-> target.name, base |-> loc.base,
                    type |-> loc.type,
                    ret |-> IF removed THEN "true" ELSE "false",
                    hadSkillDir |-> existsSync(dirs, skillNameTargetDir),
                    hadAltDir |-> existsSync(dirs, fullPackageNameTargetDir),
                    hadKey |-> pre.kind = "ok" /\ config.name \in DOMAIN pre.skills,
                    fsChanged |-> dirs' # dirs \/ manifests' # manifests,
                    preManifest |-> pre]
  /\ idx' = idx + 1
  /\ UNCHANGED <<world, phase, op, config, npm_config_global, skillMdExists,
                 enabledTargets, installedPaths, exitCode, startedClean, roundTrip>>

\* the summary of lines 192-204; the script ends
UninstallFinish ==
  /\ phase = "running" /\ op = "uninstall" /\ idx > Len(enabledTargets)
  /\ phase' = "exited"
  /\ exitCode' = 0
  /\ UNCHANGED <<world, fsys, op, config, npm_config_global, skillMdExists,
                 enabledTargets, idx, installedPaths, uninstalledFrom, out,
                 location, projectRoot, last, startedClean, roundTrip>>

Next ==
  \/ InstallFatal
  \/ InstallNoTargets
  \/ InstallBegin
  \/ InstallToTarget
  \/ InstallFinish
  \/ UninstallNoConfig
  \/ UninstallBegin
  \/ UninstallFromTarget
  \/ UninstallFinish

Spec == Init /\ [][Next]_vars

----------------------------------------------------------------------------
(* The Target Resolver on its own: every configuration within the bounds *)

TargetNames == {"claude-code", "cursor", "2", "1"}

TargetMaps ==
  {s \in UNION {[1..k -> {Entry(n, e) : n \in TargetNames, e \in JsValues}] :
                  k \in 0..MaxTargets} :
     \A i, j \in 1..Len(s) : i # j => s[i].name # s[j].name}

ResolverConfigs ==
  {[name |-> NameA, version |-> "1.0.0", hasTargets |-> TRUE, targets |-> m] :
     m \in TargetMaps}
  \cup {[name |-> NameA, version |-> "1.0.0", hasTargets |-> FALSE, targets |-> <<>>]}

ResolverInit ==
  /\ CWD = Repo /\ hasPackageJson = {Repo} /\ hasGit = {}
  /\ dirs = {} /\ manifests = <<>>
  /\ config \in ResolverConfigs
  /\ IdleRun

\* the call of getEnabledTargets (install-skill.js:105, utils.js:172)
ResolveTargets ==
  /\ phase = "idle"
  /\ enabledTargets' = getEnabledTargets(config)
  /\ phase' = "resolved"
  /\ UNCHANGED <<world, fsys, op, config, npm_config_global, skillMdExists, idx,
                 installedPaths, uninstalledFrom, out, exitCode, location,
                 projectRoot, last, startedClean, roundTrip>>

ResolverNext == ResolveTargets

ResolverSpec == ResolverInit /\ [][ResolverNext]_vars

----------------------------------------------------------------------------
(* The Location Detector on its own: every working directory of at most    *)
(* MaxDepth segments and every placement of the markers on its ancestors   *)

DirNames == {<<"repo">>, NODE_MODULES, <<"pkg">>}

WorkingDirs == UNION {[1..k -> DirNames] : k \in 0..MaxDepth}

\* p, its parent, ... and the root
Ancestors(p) == {SubSeq(p, 1, k) : k \in 0..Len(p)}

DetectorInit ==
  /\ CWD \in WorkingDirs
  /\ hasPackageJson \in SUBSET Ancestors(CWD)
  /\ hasGit \in SUBSET Ancestors(CWD)
  /\ dirs = {} /\ manifests = <<>>
  /\ config = NoConfig
  /\ IdleRun

\* a call of detectInstallLocation (install-skill.js:13, utils.js:108)
DetectLocation ==
  /\ phase = "idle"
  /\ \E n \in {"claude-code", "cursor"}, isGlobal \in BOOLEAN :
       /\ location' = detectInstallLocation(PathsOf(n), isGlobal)
       /\ projectRoot' = IF isGlobal THEN <<>> ELSE detectedProjectRoot
       /\ last' = [NoLast EXCEPT !.op = "detect", !.target = n]
  /\ phase' = "detected"
  /\ UNCHANGED <<world, fsys, op, config, npm_config_global, skillMdExists,
                 enabledTargets, idx, installedPaths, uninstalledFrom, out,
                 exitCode, startedClean, roundTrip>>

DetectorNext == DetectLocation

DetectorSpec == DetectorInit /\ [][DetectorNext]_vars

----------------------------------------------------------------------------
(* Properties *)

HasKey(base, name) ==
  LET m == readManifest(manifests, base) IN m.kind = "ok" /\ name \in DOMAIN m.skills

\* the target the latest per-target step worked on
LastTarget == enabledTargets[idx - 1]

\* C1: after install and then uninstall of the same config with the same
\* toggle value, from a clean filesystem, no resolved target has a skill
\* directory (under either name) or a manifest key for config.name at the
\* base directory where install put the skill.
C1_RoundTripLeavesNothing ==
  (phase = "exited" /\ op = "uninstall" /\ roundTrip) =>
    \A i \in 1..Len(enabledTargets) :
      LET base == installLocation(enabledTargets[i]).base IN
        /\ join(base, extractSkillName(config.name)) \notin dirs
        /\ join(base, config.name) \notin dirs
        /\ ~HasKey(base, config.name)

\* C2: installToTarget installs under join(home, paths.global), type
\* "personal", when the toggle is true and under join(project root,
\* paths.project), type "project", when it is not; that location is the one
\* uninstallFromTarget computes for the same target and toggle.
C2_InstallScopeFollowsToggle ==
  last.op = "install" =>
    /\ npm_config_global = "true" =>
         /\ last.base = join(homedir, LastTarget.paths.global)
         /\ last.type = "personal"
    /\ npm_config_global # "true" =>
         /\ last.base = join(detectedProjectRoot, LastTarget.paths.project)
         /\ last.type = "project"
    /\ last.base = uninstallLocation(LastTarget, npm_config_global).base

\* marker present and the directory neither named node_modules nor below one
ValidRoot(d) ==
  /\ d \in hasPackageJson \cup hasGit
  /\ \A i \in 1..Len(d) : d[i] # NODE_MODULES

ValidRoots == {d \in Ancestors(CWD) : ValidRoot(d)}

C4_MissingSkillMdIsFatal ==
  (phase = "exited" /\ op = "install" /\ ~skillMdExists /\ Len(enabledTargets) > 0) =>
    /\ exitCode # 0
    /\ installedPaths = <<>>

\* the declared entries whose enabled is the boolean true, as {name, paths}
RECURSIVE StrictlyEnabled(_)
StrictlyEnabled(s) ==
  IF s = <<>> THEN <<>>
  ELSE IF s[1].enabled = JsTrue
       THEN <<[name |-> s[1].name, paths |-> s[1].paths]>> \o StrictlyEnabled(Tail(s))
       ELSE StrictlyEnabled(Tail(s))

\* C5 as stated: with a targets field, the result is exactly the entries
\* whose enabled is the boolean true, in declaration order.
C5_OnlyBooleanTrue ==
  (phase = "resolved" /\ config.hasTargets) =>
    enabledTargets = StrictlyEnabled(config.targets)

Falsy == {[type |-> "boolean", val |-> "false"], [type |-> "number", val |-> "0"],
          [type |-> "string", val |-> ""], [type |-> "undefined", val |-> ""]}

DeclaredAt(name) == CHOOSE i \in 1..Len(config.targets) : config.targets[i].name = name

Digits == <<"0", "1", "2", "3", "4", "5", "6", "7", "8", "9">>
IsDigit(name) == \E v \in 1..10 : Digits[v] = name
DigitValue(name) == (CHOOSE v \in 1..10 : Digits[v] = name) - 1

\* C5 amended: with a targets field, the result is exactly the entries whose
\* enabled is truthy (1 and "false" included), each once as {name, paths},
\* integer-like names first and the other names in declaration order; no
\* truthy entry gives the empty list.
C5_TruthyInEntriesOrder ==
  (phase = "resolved" /\ config.hasTargets) =>
    /\ {enabledTargets[i] : i \in 1..Len(enabledTargets)}
         = {[name |-> config.targets[j].name, paths |-> config.targets[j].paths] :
              j \in {k \in 1..Len(config.targets) : config.targets[k].enabled \notin Falsy}}
    /\ \A i, j \in 1..Len(enabledTargets) :
         i < j =>
           /\ enabledTargets[i].name # enabledTargets[j].name
           /\ IsDigit(enabledTargets[j].name) => IsDigit(enabledTargets[i].name)
           /\ (~IsDigit(enabledTargets[i].name) /\ ~IsDigit(enabledTargets[j].name))
                => DeclaredAt(enabledTargets[i].name) < DeclaredAt(enabledTargets[j].name)
           /\ (IsDigit(enabledTargets[i].name) /\ IsDigit(enabledTargets[j].name))
                => DigitValue(enabledTargets[i].name) < DigitValue(enabledTargets[j].name)

C5_Witness ==
  /\ phase = "resolved" /\ config.hasTargets
  /\ Len(config.targets) = 2
  /\ config.targets[1].enabled = [type |-> "string", val |-> "false"]
  /\ config.targets[2].enabled = JsFalse
  /\ Len(enabledTargets) = 1
  /\ enabledTargets[1].name = config.targets[1].name

\* C6: uninstallFromTarget returns true or false without throwing, true if it
\* changed anything and false only if there was no directory under either
\* name and no manifest entry, the filesystem then being unchanged; an
\* uninstall run never ends with a nonzero exit status.
C6_FalseOnlyIfAbsent ==
  /\ last.op = "uninstall" =>
       /\ last.ret \in {"true", "false"}
       /\ last.fsChanged => last.ret = "true"
       /\ last.ret = "false" =>
            /\ ~last.hadSkillDir /\ ~last.hadAltDir /\ ~last.hadKey
            /\ ~last.fsChanged
  /\ (phase = "exited" /\ op = "uninstall") => exitCode = 0

\* "@scope/pkg": an "@", a scope, one "/", a package part
SlashAt(name) == CHOOSE i \in 1..Len(name) : name[i] = "/"
IsScoped(name) ==
  /\ Len(name) >= 4 /\ name[1] = "@"
  /\ Cardinality({i \in 1..Len(name) : name[i] = "/"}) = 1
  /\ SlashAt(name) \in 3..(Len(name) - 1)
ScopePart(name) == SubSeq(name, 1, SlashAt(name) - 1)
PkgPart(name) == SubSeq(name, SlashAt(name) + 1, Len(name))

\* C7: a successful install of "@scope/pkg" to a target creates base/pkg,
\* leaves no base/@scope/pkg, and records the skill under the key
\* "@scope/pkg" with path base/pkg and the target's name; the manifest has
\* no key besides that one and the keys of the earlier parseable manifest,
\* which keep their records.
C7_ScopedInstall ==
  (last.op = "install" /\ last.ret = "returned" /\ IsScoped(config.name)) =>
    LET m == readManifest(manifests, last.base)
        old == last.preManifest
        oldKeys == IF old.kind = "ok" THEN DOMAIN old.skills ELSE {}
        skillDir == Append(last.base, PkgPart(config.name))
    IN /\ skillDir \in dirs
       /\ last.base \o <<ScopePart(config.name), PkgPart(config.name)>> \notin dirs
       /\ m.kind = "ok"
       /\ DOMAIN m.skills = oldKeys \cup {config.name}
       /\ m.skills[config.name].path = skillDir
       /\ m.skills[config.name].target = last.target
       /\ \A k \in oldKeys \ {config.name} : m.skills[k] = old.skills[k]

C7_Witness ==
  /\ last.op = "install" /\ last.ret = "returned"
  /\ config.name = NameA
  /\ last.hadAltDir
  /\ last.preManifest.kind = "ok"
  /\ NameB \in DOMAIN last.preManifest.skills
  /\ NameA \notin DOMAIN last.preManifest.skills
  /\ HasKey(last.base, NameB)

\* C8: installSkill attempts the resolved targets one after the other in the
\* resolver's order, each once whether or not another one threw, and
\* installedPaths holds {target, path} for exactly those that did not throw,
\* in that order.
C8_EveryTargetAttempted ==
  (op = "install" /\ phase \in {"running", "exited"}) =>
    /\ phase = "exited" => Len(out) = Len(enabledTargets)
    /\ Len(out) = idx - 1
    /\ \A i \in 1..Len(out) : out[i].target = enabledTargets[i].name
    /\ LET ok == {i \in 1..Len(out) : out[i].line = "installed"} IN
         /\ Len(installedPaths) = Cardinality(ok)
         /\ \A i \in ok :
              installedPaths[Cardinality({j \in ok : j <= i})] =
                [target |-> enabledTargets[i].name,
                 path |-> join(join(detectedProjectRoot, enabledTargets[i].paths.project),
                               extractSkillName(config.name))]

C8_Witness ==
  /\ op = "install" /\ phase = "exited"
  /\ Len(out) = 2
  /\ out[1].line = "failed"
  /\ out[2].line = "installed"
  /\ Len(installedPaths) = 1
  /\ installedPaths[1].target = "cursor"

\* C9: in project scope, when no ancestor-or-self of the working directory
\* has a marker outside node_modules, the detector falls back to the working
\* directory: base = join(CWD, paths.project).
C9_FallbackToCwd ==
  (phase = "detected" /\ location.type = "project" /\ ValidRoots = {}) =>
    location.base = join(CWD, PathsOf(last.target).project)

\* C10: every entry of every manifest has a path that exists as a directory,
\* and uninstallFromTarget never removes the directory recorded for another
\* package that stays listed.
C10_ManifestPathsExist ==
  /\ \A b \in DOMAIN manifests : \A k \in DOMAIN manifests[b].skills :
       manifests[b].skills[k].path \in dirs
  /\ (last.op = "uninstall" /\ last.hadSkillDir) =>
       LET m == readManifest(manifests, last.base) IN
       \A k \in DOMAIN m.skills :
         (k # config.name /\ k \in DOMAIN last.preManifest.skills)
           => m.skills[k].path \in dirs

====
